---- MODULE Spec2Model ----
(***************************************************************************)
(* Model of the compose form of apps/web (components/forms/                *)
(* send-email-form.tsx): attachment and inline-image ingestion, payload    *)
(* assembly (onSubmit), and the transmission started from the payload      *)
(* dialog.                                                                 *)
(*                                                                         *)
(* Text the code inspects character by character (recipient lists, image   *)
(* filenames, prompts) is a sequence of one-character strings.  Text the   *)
(* code only copies (titles, attachment names) is a TLA+ string.  A MIME   *)
(* type "major/minor" is the pair <<major, minor>>.                        *)
(***************************************************************************)
EXTENDS Integers, Sequences, FiniteSets, TLC

VARIABLES
  files,             \* useState<FileWithBase64[]>
  htmlImages,        \* useState<HtmlImage[]>
  alertDialog,       \* useState<{open, title, description}>
  payloadObject,     \* useState<EmailPayload | null>: <<>> is null, <<p>> is p
  showPayloadDialog, \* useState(false)
  isSending,         \* useState(false)
  emailType,         \* form.watch("emailType")
  calls,             \* invocations of the async handlers suspended in an await
  request,           \* the POSTs in flight, as the sequence of their bodies
  probe              \* the latest call of a pure helper: its argument and result

vars == <<files, htmlImages, alertDialog, payloadObject, showPayloadDialog,
          isSending, emailType, calls, request, probe>>

-----------------------------------------------------------------------------
(* Bounds of the model.                                                    *)

MaxBatch == 2
MaxFiles == 2
MaxImages == 2
MaxCalls == 2
MaxLen == 3
MaxClock == 2
MaxBytes == 4

-----------------------------------------------------------------------------
(* Text helpers.                                                           *)

UpperCaseLetters ==
  <<"A", "B", "C", "D", "E", "F", "G", "H", "I", "J", "K", "L", "M",
     "N", "O", "P", "Q", "R", "S", "T", "U", "V", "W", "X", "Y", "Z">>

LowerCaseLetters ==
  <<"a", "b", "c", "d", "e", "f", "g", "h", "i", "j", "k", "l", "m",
     "n", "o", "p", "q", "r", "s", "t", "u", "v", "w", "x", "y", "z">>

\* String.prototype.toLowerCase, one character at a time.
LowerChar(c) ==
  IF \E i \in 1..26 : UpperCaseLetters[i] = c
    THEN LowerCaseLetters[CHOOSE i \in 1..26 : UpperCaseLetters[i] = c]
  ELSE c

toLowerCase(s) == [i \in 1..Len(s) |-> LowerChar(s[i])]

\* String.prototype.includes
includes(s, sub) ==
  \E i \in 1..(Len(s) - Len(sub) + 1) : SubSeq(s, i, i + Len(sub) - 1) = sub

RECURSIVE SumSizes(_)
SumSizes(fs) == IF fs = <<>> THEN 0 ELSE Head(fs).size + SumSizes(Tail(fs))

-----------------------------------------------------------------------------
(* Constants of the form.                                                  *)

MB == 1024 * 1024

MAX_TOTAL_SIZE == 150 * 1024 * 1024

ACCEPTED_FILE_TYPES ==
  { <<"image", "jpeg">>, <<"image", "jpg">>, <<"image", "png">>,
    <<"image", "gif">>, <<"application", "pdf">>, <<"application", "msword">>,
    <<"application",
      "vnd.openxmlformats-officedocument.wordprocessingml.document">>,
    <<"application", "vnd.ms-excel">>,
    <<"application",
      "vnd.openxmlformats-officedocument.spreadsheetml.sheet">>,
    <<"text", "plain">> }

\* The "15MB" that the comment on MAX_TOTAL_SIZE and the text of the
\* rejection notice name as the limit.
DocumentedLimit == 15 * MB

-----------------------------------------------------------------------------
(* The files a user can pick (browser File objects).                       *)

\* The bytes of a file: `length` bytes that repeat the three bytes of
\* `period`, which is how the model writes down contents of megabytes.
Blob(period, length) == [period |-> period, length |-> length]

\* A File: its size is the number of its bytes.
File(name, size, type, content) ==
  [name |-> name, size |-> size, type |-> type, content |-> content]

ReportPdf ==
  File(<<"r", "e", "p", "o", "r", "t", ".", "p", "d", "f">>, 10 * MB, <<"application", "pdf">>,
       Blob(<<37, 80, 68>>, 10 * MB))
NotesTxt ==
  File(<<"n", "o", "t", "e", "s", ".", "t", "x", "t">>, 6 * MB, <<"text", "plain">>,
       Blob(<<78, 111, 116>>, 6 * MB))
ScanPdf ==
  File(<<"s", "c", "a", "n", ".", "p", "d", "f">>, 140 * MB, <<"application", "pdf">>,
       Blob(<<37, 80, 68>>, 140 * MB))
ToolExe ==
  File(<<"t", "o", "o", "l", ".", "e", "x", "e">>, 6 * MB, <<"application", "x-msdownload">>,
       Blob(<<77, 90, 144>>, 6 * MB))
HugeIso ==
  File(<<"h", "u", "g", "e", ".", "i", "s", "o">>, 151 * MB, <<"application", "x-iso9660-image">>,
       Blob(<<0, 0, 0>>, 151 * MB))
HeaderLogoPng ==
  File(<<"h", "e", "a", "d", "e", "r", "-", "l", "o", "g", "o", ".", "p", "n", "g">>, 2 * MB, <<"image", "png">>,
       Blob(<<137, 80, 78>>, 2 * MB))
FooterJpg ==
  File(<<"M", "y", "-", "F", "O", "O", "T", "E", "R", ".", "j", "p", "g">>, 3 * MB, <<"image", "jpeg">>,
       Blob(<<255, 216, 255>>, 3 * MB))
BannerSvg ==
  File(<<"h", "e", "a", "d", ".", "s", "v", "g">>, 200 * MB, <<"image", "svg+xml">>,
       Blob(<<60, 115, 118>>, 200 * MB))

CandidateFiles == {ReportPdf, NotesTxt, ScanPdf, ToolExe, HugeIso}

CandidateImages == {HeaderLogoPng, FooterJpg, BannerSvg, NotesTxt}

\* The non-empty selections of at most n files out of S, in any order.
Batches(S, n) == UNION {[1..k -> S] : k \in 1..n}

-----------------------------------------------------------------------------
(* Notices.                                                                *)

NoSize == [nan |-> FALSE, hundredths |-> 0, unit |-> ""]

\* formatFileSize: Math.round(bytes / k^i * 100) / 100 + " " + sizes[i] with
\* i = floor(log(bytes) / log(k)); the number is kept in hundredths.  The
\* quotient and the remainder are rounded apart to stay within 32 bits.  The
\* logarithm of a negative number is NaN, which gives "NaN undefined"; an
\* amount of 1024 MB or more has no unit in sizes.
formatFileSize(bytes) ==
  IF bytes = 0 THEN [nan |-> FALSE, hundredths |-> 0, unit |-> "Bytes"]
  ELSE IF bytes < 0 THEN [nan |-> TRUE, hundredths |-> 0, unit |-> "undefined"]
  ELSE LET k == 1024
           i == IF bytes < k THEN 0 ELSE IF bytes < k * k THEN 1
                ELSE IF bytes \div k < k * k THEN 2 ELSE 3
           d == IF i = 0 THEN 1 ELSE IF i = 1 THEN k ELSE k * k
           sizes == <<"Bytes", "KB", "MB">>
       IN IF i = 3
          THEN [nan |-> FALSE, hundredths |-> ((bytes \div (k * k)) * 100) \div k,
                unit |-> "undefined"]
          ELSE [nan |-> FALSE,
                hundredths |-> (bytes \div d) * 100
                                 + ((bytes % d) * 200 + d) \div (2 * d),
                unit |-> sizes[i + 1]]

\* A notice as setAlertDialog receives it.  The description is its template
\* with what is interpolated into it: a file name, a formatted size, or a
\* message of the delivery service.
Notice(title, text, arg, size) ==
  [open |-> TRUE, title |-> title,
   description |-> [text |-> text, arg |-> arg, size |-> size, message |-> ""]]

NoNotice ==
  [open |-> FALSE, title |-> "",
   description |-> [text |-> "", arg |-> <<>>, size |-> NoSize, message |-> ""]]

QuotaNotice(file, currentTotalSize) ==
  Notice("Total Size Limit Exceeded",
         "Cannot add {arg}. Total attachment size limit is 15MB. You have {size} remaining.",
         file.name, formatFileSize(MAX_TOTAL_SIZE - currentTotalSize))

TypeNotice(file) ==
  Notice("Unsupported File Type", "{arg} has an unsupported file type.",
         file.name, NoSize)

EncodeNotice(file) ==
  Notice("File Upload Error", "Failed to process {arg}. Please try again.",
         file.name, NoSize)

ImageTypeNotice(file) ==
  Notice("Invalid File Type", "{arg} is not an image file.", file.name, NoSize)

-----------------------------------------------------------------------------
(* Attachment and inline-image ingestion.                                  *)

\* The 64 characters of base64, the character of value v at v + 1.
Base64Alphabet ==
  <<"A", "B", "C", "D", "E", "F", "G", "H", "I", "J", "K", "L", "M", "N", "O", "P", "Q", "R", "S", "T", "U", "V", "W", "X", "Y", "Z", "a", "b", "c", "d", "e", "f", "g", "h", "i", "j", "k", "l", "m", "n", "o", "p", "q", "r", "s", "t", "u", "v", "w", "x", "y", "z", "0", "1", "2", "3", "4", "5", "6", "7", "8", "9", "+", "/">>

\* One to three bytes as four characters, padded with "=".
encodeGroup(bytes) ==
  LET a == bytes[1]
      b == IF Len(bytes) >= 2 THEN bytes[2] ELSE 0
      c == IF Len(bytes) >= 3 THEN bytes[3] ELSE 0
  IN << Base64Alphabet[(a \div 4) + 1],
        Base64Alphabet[((a % 4) * 16 + (b \div 16)) + 1],
        IF Len(bytes) >= 2 THEN Base64Alphabet[((b % 16) * 4 + (c \div 64)) + 1]
        ELSE "=",
        IF Len(bytes) >= 3 THEN Base64Alphabet[(c % 64) + 1] ELSE "=" >>

\* Faulty variant: the bytes left over after the last whole group are dropped.
base64OfWholeGroups(content) ==
  [group |-> encodeGroup(content.period), groups |-> content.length \div 3,
   tail |-> <<>>]

\* The base64 text of a content: `group` written `groups` times, then `tail`,
\* the padded group of the one or two bytes left over.
base64Of(content) ==
  [group |-> encodeGroup(content.period), groups |-> content.length \div 3,
   tail |-> IF content.length % 3 = 0 THEN <<>>
            ELSE encodeGroup(SubSeq(content.period, 1, content.length % 3))]

\* reader.readAsDataURL(file) resolves with "data:<type>;base64,<text>".
convertToBase64(file) ==
  [mime |-> file.type, data |-> base64Of(file.content)]

getTotalFileSize == SumSizes(files)

\* Faulty variant: the check forgets the size of the candidate.
overBudgetIgnoringCandidate(currentTotalSize, file) ==
  currentTotalSize > MAX_TOTAL_SIZE

\* if (currentTotalSize + file.size > MAX_TOTAL_SIZE)
overBudget(currentTotalSize, file) == currentTotalSize + file.size > MAX_TOTAL_SIZE

\* ACCEPTED_FILE_TYPES.includes(file.type)
acceptedType(file) == file.type \in ACCEPTED_FILE_TYPES

\* Faulty variant: an image must also fit the attachment budget.
isImageTypeWithinBudget(file) ==
  file.type[1] = "image" /\ file.size <= MAX_TOTAL_SIZE

\* file.type.startsWith("image/")
isImageType(file) == file.type[1] = "image"

FileWithBase64(file, base64) ==
  [name |-> file.name, size |-> file.size, type |-> file.type,
   base64 |-> base64, originalName |-> file.name]

HtmlImage(file, base64) ==
  [filename |-> file.name, base64 |-> base64, originalName |-> file.name]

\* A handler suspended in `await convertToBase64(file)`: the file being read,
\* the files of the batch still to come and the handler's local total.
Suspended(handler, file, rest, currentTotalSize) ==
  [handler |-> handler, file |-> file, rest |-> rest,
   currentTotalSize |-> currentTotalSize]

\* Faulty variant: the first refused file ends the batch.
fileLoopStopping(queue, currentTotalSize, alert) ==
  IF queue = <<>> THEN [alert |-> alert, waiting |-> <<>>]
  ELSE LET file == Head(queue) IN
    IF overBudget(currentTotalSize, file)
      THEN [alert |-> QuotaNotice(file, currentTotalSize), waiting |-> <<>>]
    ELSE IF ~acceptedType(file)
      THEN [alert |-> TypeNotice(file), waiting |-> <<>>]
    ELSE [alert |-> alert,
          waiting |-> <<Suspended("handleFileChange", file, Tail(queue),
                                  currentTotalSize)>>]

\* Faulty variant: every file that passes is handed to convertToBase64 at
\* once, as Promise.all over the batch would.
fileLoopAllAtOnce(queue, currentTotalSize, alert) ==
  LET passing == {i \in 1..Len(queue) :
                    ~overBudget(currentTotalSize, queue[i])
                      /\ acceptedType(queue[i])}
      nth(j) == CHOOSE i \in passing :
                  Cardinality({p \in passing : p <= i}) = j
  IN [alert |-> alert,
      waiting |-> [j \in 1..Cardinality(passing) |->
                     Suspended("handleFileChange", queue[nth(j)], <<>>,
                               currentTotalSize)]]

\* The body of handleFileChange's for loop from the file at the head of
\* `queue` up to the next await: each rejected file replaces the notice and
\* the loop goes on; the first file that passes both checks is handed to
\* convertToBase64.  `waiting` is <<>> when the loop ran to its end.
RECURSIVE fileLoop(_, _, _)
fileLoop(queue, currentTotalSize, alert) ==
  IF queue = <<>> THEN [alert |-> alert, waiting |-> <<>>]
  ELSE LET file == Head(queue) IN
    IF overBudget(currentTotalSize, file)
      THEN fileLoop(Tail(queue), currentTotalSize,
                    QuotaNotice(file, currentTotalSize))
    ELSE IF ~acceptedType(file)
      THEN fileLoop(Tail(queue), currentTotalSize, TypeNotice(file))
    ELSE [alert |-> alert,
          waiting |-> <<Suspended("handleFileChange", file, Tail(queue),
                                  currentTotalSize)>>]

\* The same for handleHtmlImageChange.
RECURSIVE imageLoop(_, _)
imageLoop(queue, alert) ==
  IF queue = <<>> THEN [alert |-> alert, waiting |-> <<>>]
  ELSE LET file == Head(queue) IN
    IF ~isImageType(file)
      THEN imageLoop(Tail(queue), ImageTypeNotice(file))
    ELSE [alert |-> alert,
          waiting |-> <<Suspended("handleHtmlImageChange", file, Tail(queue),
                                  0)>>]

\* Bound of the model: how many of the files of `queue` the loop can still
\* append, its local total being at least `currentTotalSize` from here on.
Admissible(queue, currentTotalSize) ==
  Cardinality({i \in 1..Len(queue) :
                 ~overBudget(currentTotalSize, queue[i]) /\ acceptedType(queue[i])})

ImagesIn(queue) == Cardinality({i \in 1..Len(queue) : isImageType(queue[i])})

\* Bound of the model: the entries the suspended handlers may still append.
RECURSIVE Pending(_, _)
Pending(cs, handler) ==
  IF cs = <<>> THEN 0
  ELSE LET c == Head(cs) IN
    (IF c.handler # handler THEN 0
     ELSE IF handler = "handleFileChange"
       THEN 1 + Admissible(c.rest, c.currentTotalSize)
     ELSE 1 + ImagesIn(c.rest))
    + Pending(Tail(cs), handler)

RemoveAt(seq, i) == SubSeq(seq, 1, i - 1) \o SubSeq(seq, i + 1, Len(seq))

\* Faulty variant: the entries after the index go as well.
filterOutFrom(prev, index) == SubSeq(prev, 1, index)

\* prev.filter((_, i) => i !== index), index counted from 0
filterOut(prev, index) ==
  IF index + 1 \in 1..Len(prev) THEN RemoveAt(prev, index + 1) ELSE prev

UploadsShown == emailType \in {"html", "auto-generate"}

handleFileChange(batch) ==
  /\ UploadsShown
  /\ Len(calls) < MaxCalls
  /\ Len(files) + Pending(calls, "handleFileChange")
       + Admissible(batch, getTotalFileSize) <= MaxFiles
  /\ LET r == fileLoop(batch, getTotalFileSize, alertDialog) IN
       /\ alertDialog' = r.alert
       /\ calls' = calls \o r.waiting
  /\ UNCHANGED <<files, htmlImages, payloadObject, showPayloadDialog,
                 isSending, emailType, request, probe>>

handleHtmlImageChange(batch) ==
  /\ UploadsShown
  /\ Len(calls) < MaxCalls
  /\ Len(htmlImages) + Pending(calls, "handleHtmlImageChange")
       + ImagesIn(batch) <= MaxImages
  /\ LET r == imageLoop(batch, alertDialog) IN
       /\ alertDialog' = r.alert
       /\ calls' = calls \o r.waiting
  /\ UNCHANGED <<files, htmlImages, payloadObject, showPayloadDialog,
                 isSending, emailType, request, probe>>

\* Faulty variant: the size is added before the encode is awaited.
totalAfterCountingFailures(c, encoded) == c.currentTotalSize + c.file.size

\* currentTotalSize += file.size stands after the await inside the try: it
\* runs when the encode resolved and is skipped when it threw.
totalAfter(c, encoded) ==
  IF encoded THEN c.currentTotalSize + c.file.size ELSE c.currentTotalSize

\* Faulty variant: the new entry is put in front.
prepended(prev, entry) == <<entry>> \o prev

\* [...prev, entry]
appended(prev, entry) == Append(prev, entry)

\* reader.onload: the await of call k resumes with the data URL; the entry is
\* appended with a functional update and the loop goes on.
encodeResolved(k) ==
  /\ k \in 1..Len(calls)
  /\ LET c == calls[k]
         base64 == convertToBase64(c.file)
     IN IF c.handler = "handleFileChange"
        THEN LET r == fileLoop(c.rest, totalAfter(c, TRUE), alertDialog) IN
               /\ files' = appended(files, FileWithBase64(c.file, base64))
               /\ alertDialog' = r.alert
               /\ calls' = RemoveAt(calls, k) \o r.waiting
               /\ UNCHANGED htmlImages
        ELSE LET r == imageLoop(c.rest, alertDialog) IN
               /\ htmlImages' = appended(htmlImages, HtmlImage(c.file, base64))
               /\ alertDialog' = r.alert
               /\ calls' = RemoveAt(calls, k) \o r.waiting
               /\ UNCHANGED files
  /\ UNCHANGED <<payloadObject, showPayloadDialog, isSending, emailType, request, probe>>

\* reader.onerror: the await of call k throws; the catch block raises the
\* notice and the loop goes on with the total unchanged.
encodeFailed(k) ==
  /\ k \in 1..Len(calls)
  /\ LET c == calls[k]
         r == IF c.handler = "handleFileChange"
                THEN fileLoop(c.rest, totalAfter(c, FALSE), EncodeNotice(c.file))
                ELSE imageLoop(c.rest, EncodeNotice(c.file))
     IN /\ alertDialog' = r.alert
        /\ calls' = RemoveAt(calls, k) \o r.waiting
  /\ UNCHANGED <<files, htmlImages, payloadObject, showPayloadDialog,
                 isSending, emailType, request, probe>>

removeFile(index) ==
  /\ UploadsShown
  /\ files' = filterOut(files, index)
  /\ UNCHANGED <<htmlImages, alertDialog, payloadObject, showPayloadDialog,
                 isSending, emailType, calls, request, probe>>

removeHtmlImage(index) ==
  /\ UploadsShown
  /\ htmlImages' = filterOut(htmlImages, index)
  /\ UNCHANGED <<files, alertDialog, payloadObject, showPayloadDialog,
                 isSending, emailType, calls, request, probe>>

\* prev.map((img, i) => i === index ? { ...img, filename: newFilename } : img)
renameImage(prev, index, newFilename) ==
  [i \in 1..Len(prev) |->
     IF i - 1 = index THEN [prev[i] EXCEPT !.filename = newFilename]
     ELSE prev[i]]

\* Faulty variant: the rename overwrites the original name as well.
renameFileForgettingOriginal(prev, index, newFilename) ==
  [i \in 1..Len(prev) |->
     IF i - 1 = index
       THEN [prev[i] EXCEPT !.name = newFilename, !.originalName = newFilename]
     ELSE prev[i]]

\* prev.map((file, i) => i === index ? { ...file, name: newFilename } : file)
renameFile(prev, index, newFilename) ==
  [i \in 1..Len(prev) |->
     IF i - 1 = index THEN [prev[i] EXCEPT !.name = newFilename] ELSE prev[i]]

updateImageFilename(index, newFilename) ==
  /\ UploadsShown
  /\ htmlImages' = renameImage(htmlImages, index, newFilename)
  /\ UNCHANGED <<files, alertDialog, payloadObject, showPayloadDialog,
                 isSending, emailType, calls, request, probe>>

updateAttachmentFilename(index, newFilename) ==
  /\ UploadsShown
  /\ files' = renameFile(files, index, newFilename)
  /\ UNCHANGED <<htmlImages, alertDialog, payloadObject, showPayloadDialog,
                 isSending, emailType, calls, request, probe>>

-----------------------------------------------------------------------------
(* Payload assembly.                                                       *)

\* Faulty variant: only the comma separates.
IsDelimiterCommaOnly(c) == c = ","

IsDelimiter(c) == c \in {",", ";"}

IsSpace(c) == c \in {" ", "\t", "\n"}

\* emailString.split(/[,;]/)
RECURSIVE split(_)
split(s) ==
  IF \A i \in 1..Len(s) : ~IsDelimiter(s[i]) THEN <<s>>
  ELSE LET i == CHOOSE j \in 1..Len(s) :
                  /\ IsDelimiter(s[j])
                  /\ \A h \in 1..(j - 1) : ~IsDelimiter(s[h])
       IN <<SubSeq(s, 1, i - 1)>> \o split(SubSeq(s, i + 1, Len(s)))

\* String.prototype.trim
RECURSIVE trim(_)
trim(s) ==
  IF s = <<>> THEN s
  ELSE IF IsSpace(s[1]) THEN trim(Tail(s))
  ELSE IF IsSpace(s[Len(s)]) THEN trim(SubSeq(s, 1, Len(s) - 1))
  ELSE s

\* Array.prototype.join
RECURSIVE join(_, _)
join(parts, sep) ==
  IF parts = <<>> THEN <<>>
  ELSE IF Len(parts) = 1 THEN parts[1]
  ELSE parts[1] \o sep \o join(Tail(parts), sep)

mapTrim(parts) == [i \in 1..Len(parts) |-> trim(parts[i])]

filterNonEmpty(parts) == SelectSeq(parts, LAMBDA email : Len(email) > 0)

parseEmails(emailString) ==
  join(filterNonEmpty(mapTrim(split(emailString))), <<",">>)

\* `Email-${Date.now()}`
generateTxnRefNo(now) == <<"Email-", now>>

\* Faulty variant: the filename is matched as written.
findImageAsWritten(images, word) ==
  LET hits == {i \in 1..Len(images) : includes(images[i].filename, word)}
  IN IF hits = {} THEN 0 ELSE CHOOSE i \in hits : \A j \in hits : i <= j

\* Faulty variant: the last match is taken.
findLastImage(images, word) ==
  LET hits == {i \in 1..Len(images) :
                 includes(toLowerCase(images[i].filename), word)}
  IN IF hits = {} THEN 0 ELSE CHOOSE i \in hits : \A j \in hits : i >= j

\* images.find(img => img.filename.toLowerCase().includes(word)): the position
\* of the first match, 0 for undefined.
findImage(images, word) ==
  LET hits == {i \in 1..Len(images) :
                 includes(toLowerCase(images[i].filename), word)}
  IN IF hits = {} THEN 0 ELSE CHOOSE i \in hits : \A j \in hits : i <= j

CidPrefix == <<"c", "i", "d", ":", "i", "m", "g", "@">>

Element(el, class, src, text) ==
  [el |-> el, class |-> class, src |-> src, text |-> text]

\* The <img> of one slot of generateHtmlFromPrompt, or nothing.
slotImage(prompt, images, slot, word, fallback) ==
  LET found == findImage(images, word) IN
    IF found # 0 \/ includes(toLowerCase(prompt), word)
      THEN LET imgRef == IF found # 0
                           THEN CidPrefix \o images[found].filename
                           ELSE CidPrefix \o fallback
           IN <<Element("img", slot, imgRef, <<>>)>>
    ELSE <<>>

\* The document is the sequence of its pieces: the fixed opening up to the
\* container div, the header <img>, the content paragraph with the prompt,
\* the footer <img> and the fixed closing.
generateHtmlFromPrompt(prompt, images) ==
  <<Element("open", "container", <<>>, <<>>)>>
    \o slotImage(prompt, images, "header", <<"h", "e", "a", "d", "e", "r">>, <<"h", "e", "a", "d", "e", "r", ".", "p", "n", "g">>)
    \o <<Element("p", "content", <<>>, prompt)>>
    \o slotImage(prompt, images, "footer", <<"f", "o", "o", "t", "e", "r">>, <<"f", "o", "o", "t", "e", "r", ".", "p", "n", "g">>)
    \o <<Element("close", "container", <<>>, <<>>)>>

Digits == {"0", "1", "2", "3", "4", "5", "6", "7", "8", "9"}

\* A JavaScript number that is an integer, and NaN.
Number(value) == [nan |-> FALSE, value |-> value]

NaN == [nan |-> TRUE, value |-> 0]

RECURSIVE digitsValue(_, _)
digitsValue(s, acc) ==
  IF s = <<>> \/ Head(s) \notin Digits THEN acc
  ELSE digitsValue(Tail(s),
         acc * 10 + (CHOOSE d \in 0..9 : ToString(d) = Head(s)))

\* parseInt: blanks, a sign and the digits up to the first other character.
parseInt(s) ==
  LET t == trim(s)
      neg == t # <<>> /\ Head(t) = "-"
      u == IF neg THEN Tail(t) ELSE t
  IN IF u = <<>> \/ Head(u) \notin Digits THEN NaN
     ELSE IF neg THEN Number(0 - digitsValue(u, 0))
     ELSE Number(digitsValue(u, 0))

\* JavaScript truthiness of a string (undefined behaves as "").
Truthy(s) == s # <<>>

OrElse(s, default) == IF Truthy(s) THEN s ELSE default

WithKey(obj, key, val) == (key :> val) @@ obj

WithoutKey(obj, key) == [k \in DOMAIN obj \ {key} |-> obj[k]]

HasKey(obj, key) == key \in DOMAIN obj

\* Faulty variant: the entries carry the names the files were uploaded with.
imageEntriesAsUploaded(images) ==
  [i \in 1..Len(images) |->
     [filename |-> images[i].originalName, base64 |-> images[i].base64]]

imageEntries(images) ==
  [i \in 1..Len(images) |->
     [filename |-> images[i].filename, base64 |-> images[i].base64]]

fileEntries(fs) ==
  [i \in 1..Len(fs) |-> [filename |-> fs[i].name, base64 |-> fs[i].base64]]

\* Faulty variant: both keys are set whatever the collections hold.
withCollectionsAlways(info, images, fs) ==
  WithKey(WithKey(info, "html_images", imageEntries(images)),
          "attachment_files", fileEntries(fs))

\* if (htmlImages.length > 0) ...; if (files.length > 0) ...
withCollections(info, images, fs) ==
  LET a == IF Len(images) > 0
             THEN WithKey(info, "html_images", imageEntries(images)) ELSE info
  IN IF Len(fs) > 0 THEN WithKey(a, "attachment_files", fileEntries(fs)) ELSE a

\* The cc (or bcc) key after `if (values.cc) ... else delete ...`.
optionalRecipients(obj, key, input) ==
  IF Truthy(input) THEN WithKey(obj, key, parseEmails(input))
  ELSE WithoutKey(obj, key)

\* Faulty variant: every mode but html counts as text.
isTextOfNotHtml(values) == values.emailType # "html"

\* const isText = values.emailType === "text"
isTextOf(values) == values.emailType = "text"

\* payload.payload before the mode is looked at: from, subject, to, and cc
\* and bcc first set and then kept or deleted.
recipientsOf(values) ==
  LET inner == [from |-> values.from, subject |-> values.subject,
                to |-> parseEmails(values.to),
                cc |-> IF Truthy(values.cc) THEN parseEmails(values.cc)
                       ELSE <<>>,
                bcc |-> IF Truthy(values.bcc) THEN parseEmails(values.bcc)
                        ELSE <<>>]
  IN optionalRecipients(optionalRecipients(inner, "cc", values.cc),
                        "bcc", values.bcc)

\* HTML text that the form only copies: one piece of a document.
RawHtml(text) == IF text = <<>> THEN <<>> ELSE <<Element("raw", "", <<>>, text)>>

\* payload.payload with the body the mode asks for.
withBody(inner, values, images) ==
  IF isTextOf(values)
    THEN WithKey(WithKey(inner, "html", RawHtml(values.htmlBody)),
                 "text", values.textBody)
  ELSE IF values.emailType = "auto-generate"
    THEN WithKey(inner, "html",
                 generateHtmlFromPrompt(values.autoPrompt, images))
  ELSE WithKey(inner, "html", RawHtml(values.htmlBody))

\* Faulty variant: the collections are attached in text mode as well.
additionalInfoOfAnyMode(values, images, fs) ==
  withCollections([template_id |-> parseInt(OrElse(values.templateId, <<"1">>)),
                   isText |-> isTextOf(values)], images, fs)

\* payload.additionalInfo.
additionalInfoOf(values, images, fs) ==
  LET info == [template_id |-> parseInt(OrElse(values.templateId, <<"1">>)),
               isText |-> isTextOf(values)]
  IN IF isTextOf(values) THEN info
     ELSE withCollections([info EXCEPT !.isText = FALSE], images, fs)

\* The object built by onSubmit from the form values, the session's
\* collections and the reading of the clock.
assemble(values, images, fs, now) ==
  [txnRefNo |-> generateTxnRefNo(now), source |-> values.source,
   payload |-> withBody(recipientsOf(values), values, images),
   additionalInfo |-> additionalInfoOf(values, images, fs)]

\* The latest reading of Date.now(): the clock never runs backwards.
LastReading == IF payloadObject = <<>> THEN 0 ELSE payloadObject[1].txnRefNo[2]

\* Faulty variant: a text-mode assembly drops what it does not transmit.
onSubmitDroppingUnsent(values, now) ==
  /\ values.emailType = emailType
  /\ now >= LastReading
  /\ IF values.emailType = "text"
       THEN files' = <<>> /\ htmlImages' = <<>>
     ELSE UNCHANGED <<files, htmlImages>>
  /\ UNCHANGED <<alertDialog, isSending, emailType, calls, request, probe>>
  /\ showPayloadDialog' = TRUE
  /\ payloadObject' = <<assemble(values, htmlImages, files, now)>>

\* form.handleSubmit(onSubmit): runs only with values that pass formSchema.
\* jsonPayload, the JSON text of the same object, is set along with it.
onSubmit(values, now) ==
  /\ values.emailType = emailType
  /\ now >= LastReading
  /\ UNCHANGED <<files, htmlImages, alertDialog, isSending, emailType, calls,
                 request, probe>>
  /\ showPayloadDialog' = TRUE
  /\ payloadObject' = <<assemble(values, htmlImages, files, now)>>

-----------------------------------------------------------------------------
(* Transmission.                                                           *)

\* What the POST to /api/email/send can come to.  A resolved request has
\* response.data in `body`; a rejected one has error.response?.data?.message
\* in `serverMessage` and error.message in `transportMessage`.  A message
\* that may be missing is <<>> when undefined and <<m>> when it is m.
Outcome(ok, body, serverMessage, transportMessage) ==
  [ok |-> ok, body |-> body, serverMessage |-> serverMessage,
   transportMessage |-> transportMessage]

NoBody == [message |-> <<>>]

\* The transport always names its error; the server may send no message, an
\* empty one or a text.
Outcomes ==
  { Outcome(TRUE, [message |-> <<>>], <<>>, ""),
    Outcome(TRUE, [message |-> <<"queued">>], <<>>, ""),
    Outcome(FALSE, NoBody, <<"Mailbox unavailable">>,
            "Request failed with status code 500"),
    Outcome(FALSE, NoBody, <<"">>, "Request failed with status code 502"),
    Outcome(FALSE, NoBody, <<>>, "Network Error") }

\* a || b on strings
Or(a, b) == IF a # "" THEN a ELSE b

\* m || b where m may be undefined: undefined and "" are both falsy.
OrMissing(m, b) == IF m = <<>> THEN b ELSE Or(m[1], b)

\* Faulty variant: the message of the server is ignored.
sendEmailErrorOfTransport(outcome) == outcome.transportMessage

\* sendEmail's catch: error.response?.data?.message || error.message
sendEmailError(outcome) ==
  OrMissing(outcome.serverMessage, outcome.transportMessage)

\* sendEmail: returns response.data, or throws an Error with the message.
sendEmail(outcome) ==
  IF outcome.ok
    THEN [threw |-> FALSE, data |-> outcome.body, message |-> ""]
  ELSE [threw |-> TRUE, data |-> NoBody, message |-> sendEmailError(outcome)]

\* `Email has been sent successfully. ${response.message || ''}`
SentNotice(response) ==
  [open |-> TRUE, title |-> "Email Sent Successfully",
   description |-> [text |-> "Email has been sent successfully. {message}",
                    arg |-> <<>>, size |-> NoSize,
                    message |-> OrMissing(response.message, "")]]

\* The Error thrown by sendEmail carries no response, so the description is
\* its message, or the fixed text when that is empty.
FailedNotice(errorMessage) ==
  [open |-> TRUE, title |-> "Failed to Send Email",
   description |-> [text |-> "{message}", arg |-> <<>>, size |-> NoSize,
                    message |-> Or(errorMessage,
                       "An error occurred while sending the email.")]]

\* Faulty variant: the flag is raised before the payload is looked at.
handleSendEmailRaisingFlag ==
  /\ isSending' = TRUE
  /\ request' = request \o payloadObject
  /\ UNCHANGED <<files, htmlImages, alertDialog, payloadObject,
                 showPayloadDialog, emailType, calls, probe>>

\* handleSendEmail up to its await: it returns at once without a payload,
\* and otherwise raises the flag and issues the POST with the payload held.
handleSendEmail ==
  /\ IF payloadObject = <<>>
       THEN UNCHANGED <<isSending, request>>
       ELSE /\ isSending' = TRUE
            /\ request' = Append(request, payloadObject[1])
  /\ UNCHANGED <<files, htmlImages, alertDialog, payloadObject,
                 showPayloadDialog, emailType, calls, probe>>

\* Faulty variant: the button stays enabled while a request is in flight.
SendEmailButtonAlwaysEnabled == showPayloadDialog /\ handleSendEmail

\* The Send Email button: it is rendered in the payload dialog and is
\* disabled while isSending.
SendEmailButton == showPayloadDialog /\ ~isSending /\ handleSendEmail

\* Faulty variant: the collections are emptied in the finally block.
sendSettledClearing(outcome) ==
  /\ request # <<>>
  /\ \E j \in 1..Len(request) : request' = RemoveAt(request, j)
  /\ isSending' = FALSE
  /\ files' = <<>>
  /\ htmlImages' = <<>>
  /\ IF ~sendEmail(outcome).threw
       THEN /\ alertDialog' = SentNotice(sendEmail(outcome).data)
            /\ showPayloadDialog' = FALSE
            /\ emailType' = "html"
       ELSE /\ alertDialog' = FailedNotice(sendEmail(outcome).message)
            /\ UNCHANGED <<showPayloadDialog, emailType>>
  /\ UNCHANGED <<payloadObject, calls, probe>>

\* The await of sendEmail settles for one of the POSTs in flight; form.reset()
\* puts emailType back to html, and the finally block lowers the flag.
sendSettled(outcome) ==
  /\ request # <<>>
  /\ \E j \in 1..Len(request) : request' = RemoveAt(request, j)
  /\ isSending' = FALSE
  /\ IF ~sendEmail(outcome).threw
       THEN /\ alertDialog' = SentNotice(sendEmail(outcome).data)
            /\ showPayloadDialog' = FALSE
            /\ emailType' = "html"
            /\ files' = <<>>
            /\ htmlImages' = <<>>
       ELSE /\ alertDialog' = FailedNotice(sendEmail(outcome).message)
            /\ UNCHANGED <<showPayloadDialog, emailType, files, htmlImages>>
  /\ UNCHANGED <<payloadObject, calls, probe>>

-----------------------------------------------------------------------------
(* The rest of the form.                                                   *)

\* The Clear button.
Clear ==
  /\ emailType' = "html"
  /\ files' = <<>>
  /\ htmlImages' = <<>>
  /\ UNCHANGED <<alertDialog, payloadObject, showPayloadDialog, isSending,
                 calls, request, probe>>

\* The radio group bound to emailType.
setEmailType(type) ==
  /\ type # emailType
  /\ emailType' = type
  /\ UNCHANGED <<files, htmlImages, alertDialog, payloadObject,
                 showPayloadDialog, isSending, calls, request, probe>>

\* OK on the alert dialog: setAlertDialog({ ...alertDialog, open: false }).
closeAlert ==
  /\ alertDialog.open
  /\ alertDialog' = [alertDialog EXCEPT !.open = FALSE]
  /\ UNCHANGED <<files, htmlImages, payloadObject, showPayloadDialog,
                 isSending, emailType, calls, request, probe>>

\* Close on the payload dialog.
closePayloadDialog ==
  /\ showPayloadDialog
  /\ showPayloadDialog' = FALSE
  /\ UNCHANGED <<files, htmlImages, alertDialog, payloadObject, isSending,
                 emailType, calls, request, probe>>

EmailTypes == {"text", "html", "auto-generate"}

\* formSchema: the values handleSubmit lets through.
formSchema(values) ==
  /\ values.source # ""
  /\ values.from = "sama2lokal@maybank.com"
  /\ Len(values.to) >= 1
  /\ values.subject # ""
  /\ values.emailType \in EmailTypes

FormValues(type, to, cc, bcc, autoPrompt, templateId) ==
  [source |-> "QR-something", from |-> "sama2lokal@maybank.com", to |-> to,
   cc |-> cc, bcc |-> bcc, subject |-> "Test", emailType |-> type,
   textBody |-> <<"H", "i">>, htmlBody |-> <<"<", "p", ">", "H", "i", "<", "/", "p", ">">>,
   autoPrompt |-> autoPrompt, templateId |-> templateId]

-----------------------------------------------------------------------------
(* Specifications.                                                         *)

NoProbe ==
  [fn |-> "", arg |-> <<>>, images |-> <<>>, ret |-> <<>>, done |-> FALSE]

Init ==
  /\ files = <<>>
  /\ htmlImages = <<>>
  /\ alertDialog = NoNotice
  /\ payloadObject = <<>>
  /\ showPayloadDialog = FALSE
  /\ isSending = FALSE
  /\ emailType = "html"
  /\ calls = <<>>
  /\ request = <<>>
  /\ probe = NoProbe

\* No handler is suspended in an encode.
Idle == calls = <<>>

NewFilenames == {<<"f", "o", "o", "t", "e", "r", ".", "p", "n", "g">>}

\* What the user can do to the attachments.  With `oneAtATime` the user
\* starts nothing while a batch is still being read.
AttachmentEvent(FileSet, oneAtATime) ==
  \/ \E batch \in Batches(FileSet, MaxBatch) :
       (oneAtATime => Idle) /\ handleFileChange(batch)
  \/ \E index \in 0..(Len(files) - 1) :
       (oneAtATime => Idle) /\ removeFile(index)
  \/ \E index \in 0..(Len(files) - 1), newFilename \in NewFilenames :
       (oneAtATime => Idle) /\ updateAttachmentFilename(index, newFilename)

\* What the user can do to the inline images.
ImageEvent(ImageSet, oneAtATime) ==
  \/ \E batch \in Batches(ImageSet, MaxBatch) :
       (oneAtATime => Idle) /\ handleHtmlImageChange(batch)
  \/ \E index \in 0..(Len(htmlImages) - 1) :
       (oneAtATime => Idle) /\ removeHtmlImage(index)
  \/ \E index \in 0..(Len(htmlImages) - 1), newFilename \in NewFilenames :
       (oneAtATime => Idle) /\ updateImageFilename(index, newFilename)

\* The controls of the form that are not about one collection.
FormEvent(oneAtATime) ==
  \/ (oneAtATime => Idle) /\ Clear
  \/ \E type \in EmailTypes : (oneAtATime => Idle) /\ setEmailType(type)
  \/ (oneAtATime => Idle) /\ closeAlert

EncodeSettles ==
  \/ \E k \in 1..Len(calls) : encodeResolved(k)
  \/ \E k \in 1..Len(calls) : encodeFailed(k)

\* The attachments of the session, used one operation at a time.
NextIngest ==
  \/ AttachmentEvent(CandidateFiles, TRUE)
  \/ FormEvent(TRUE)
  \/ EncodeSettles

SpecIngest == Init /\ [][NextIngest]_vars

\* The attachments and the delivery with handlers interleaving at their
\* awaits, over one attachment file and one reading of the clock.  The inline
\* images take part in SpecAssemble.
Next ==
  \/ \E batch \in Batches({ScanPdf}, MaxBatch) : handleFileChange(batch)
  \/ \E index \in 0..(Len(files) - 1) : removeFile(index)
  \/ Clear
  \/ \E type \in EmailTypes : setEmailType(type)
  \/ closeAlert
  \/ EncodeSettles
  \/ \E type \in EmailTypes :
       onSubmit(FormValues(type, <<"a">>, <<>>, <<>>, <<>>, <<>>), 0)
  \/ closePayloadDialog
  \/ SendEmailButton
  \/ \E outcome \in Outcomes : sendSettled(outcome)

Spec == Init /\ [][Next]_vars

\* One set of valid form values per mode.
AssembleValues ==
  { FormValues(type, <<"a", "@", "x", ".", "c", "o", "m">>, <<>>, <<>>, <<"h", "e", "a", "d", "e", "r">>, <<"1">>) :
      type \in EmailTypes }

\* Assembly over the sessions that two images and one attachment file give,
\* with every read succeeding, at one reading of the clock.
NextAssemble ==
  \/ \E batch \in Batches({ReportPdf}, MaxBatch) :
       Idle /\ handleFileChange(batch)
  \/ \E index \in 0..(Len(files) - 1) : Idle /\ removeFile(index)
  \/ \E batch \in Batches({HeaderLogoPng, FooterJpg}, MaxBatch) :
       Idle /\ handleHtmlImageChange(batch)
  \/ \E index \in 0..(Len(htmlImages) - 1) : Idle /\ removeHtmlImage(index)
  \/ Idle /\ Clear
  \/ \E type \in EmailTypes : Idle /\ setEmailType(type)
  \/ \E k \in 1..Len(calls) : encodeResolved(k)
  \/ \E values \in AssembleValues :
       Idle /\ formSchema(values) /\ onSubmit(values, 0)
  \/ Idle /\ closePayloadDialog

SpecAssemble == Init /\ [][NextAssemble]_vars

RecipientChars == {"a", ",", ";", " "}

AddressChars == {"a", "b", ",", ";", " "}

\* The texts of at most n characters out of S.
Texts(S, n) == UNION {[1..k -> S] : k \in 0..n}

\* Valid form values with every short text as cc, and as bcc.
RecipientValues ==
  { FormValues(type, <<"a", "@", "x", ".", "c", "o", "m">>, cc, <<>>, <<>>, <<>>) :
      type \in EmailTypes, cc \in Texts(RecipientChars, MaxLen) }
  \cup
  { FormValues(type, <<"a", "@", "x", ".", "c", "o", "m">>, <<>>, bcc, <<>>, <<"7">>) :
      type \in EmailTypes, bcc \in Texts(RecipientChars, MaxLen) }

\* Assembly of the recipient fields, the session left empty.
NextRecipients ==
  \/ \E values \in RecipientValues :
       formSchema(values) /\ onSubmit(values, 0)
  \/ \E type \in EmailTypes : setEmailType(type)
  \/ closePayloadDialog

SpecRecipients == Init /\ [][NextRecipients]_vars

\* A call of a helper that reads nothing of the form: its arguments and, once
\* it has returned, its result.
Probe(fn, arg, images) ==
  [fn |-> fn, arg |-> arg, images |-> images, ret |-> <<>>, done |-> FALSE]

Returned(fn) == probe.fn = fn /\ probe.done

InitProbe(Calls) ==
  /\ files = <<>>
  /\ htmlImages = <<>>
  /\ alertDialog = NoNotice
  /\ payloadObject = <<>>
  /\ showPayloadDialog = FALSE
  /\ isSending = FALSE
  /\ emailType = "html"
  /\ calls = <<>>
  /\ request = <<>>
  /\ probe \in Calls

ScenarioTo == <<"a", "@", "x", ".", "c", "o", "m", ";", " ", "b", "@", "x", ".", "c", "o", "m", " ", ",", ",", " ", "c", "@", "x", ".", "c", "o", "m">>

ScenarioParsed == <<"a", "@", "x", ".", "c", "o", "m", ",", "b", "@", "x", ".", "c", "o", "m", ",", "c", "@", "x", ".", "c", "o", "m">>

callParseEmails ==
  /\ probe.fn = "parseEmails"
  /\ ~probe.done
  /\ probe' = [probe EXCEPT !.ret = parseEmails(probe.arg), !.done = TRUE]
  /\ UNCHANGED <<files, htmlImages, alertDialog, payloadObject,
                 showPayloadDialog, isSending, emailType, calls, request>>

\* parseEmails on every short text and on the text of the scenario.
SpecParse ==
  /\ InitProbe({Probe("parseEmails", s, <<>>) :
                  s \in Texts(AddressChars, MaxLen) \cup {ScenarioTo}})
  /\ [][callParseEmails]_vars

ScenarioPrompt == <<"n", "e", "e", "d", "s", " ", "a", " ", "h", "e", "a", "d", "e", "r", " ", "a", "n", "d", " ", "f", "o", "o", "t", "e", "r">>

Prompts ==
  { ScenarioPrompt, <<"N", "e", "e", "d", "s", " ", "a", " ", "H", "E", "A", "D", "E", "R">>, <<"b", "i", "g", " ", "F", "o", "o", "t", "e", "r">>, <<"h", "e", "l", "l", "o">>, <<>> }

ImageNames ==
  { <<"h", "e", "a", "d", "e", "r", "-", "l", "o", "g", "o", ".", "p", "n", "g">>, <<"M", "y", "-", "F", "O", "O", "T", "E", "R", ".", "j", "p", "g">>, <<"l", "o", "g", "o", ".", "p", "n", "g">>, <<"H", "e", "a", "d", "e", "r", "2", ".", "g", "i", "f">>,
    <<"f", "o", "o", "t", "e", "r", "-", "h", "e", "a", "d", "e", "r", ".", "p", "n", "g">> }

Registered(filename) ==
  [filename |-> filename,
   base64 |-> convertToBase64(HeaderLogoPng),
   originalName |-> <<"u", "p", "l", "o", "a", "d", ".", "p", "n", "g">>]

\* The registries of at most n images with names out of ImageNames.
Registries(n) ==
  UNION {[1..k -> {Registered(f) : f \in ImageNames}] : k \in 0..n}

callGenerateHtmlFromPrompt ==
  /\ probe.fn = "generateHtmlFromPrompt"
  /\ ~probe.done
  /\ probe' = [probe EXCEPT
                 !.ret = generateHtmlFromPrompt(probe.arg, probe.images),
                 !.done = TRUE]
  /\ UNCHANGED <<files, htmlImages, alertDialog, payloadObject,
                 showPayloadDialog, isSending, emailType, calls, request>>

\* generateHtmlFromPrompt on every prompt and every small registry.
SpecSynth ==
  /\ InitProbe({Probe("generateHtmlFromPrompt", prompt, images) :
                  prompt \in Prompts, images \in Registries(MaxImages)})
  /\ [][callGenerateHtmlFromPrompt]_vars

\* Batches that mix files the handlers refuse with files they take, one
\* operation at a time: an executable and an oversized image among the
\* attachments, a text file and an oversized drawing among the images.
BatchFiles == {ToolExe, NotesTxt, HugeIso}

BatchImages == {NotesTxt, HeaderLogoPng, BannerSvg}

NextBatch ==
  \/ \E batch \in Batches(BatchFiles, MaxBatch) :
       Idle /\ handleFileChange(batch)
  \/ \E batch \in Batches(BatchImages, MaxBatch) :
       Idle /\ handleHtmlImageChange(batch)
  \/ \E index \in 0..(Len(files) - 1) : Idle /\ removeFile(index)
  \/ \E index \in 0..(Len(htmlImages) - 1) : Idle /\ removeHtmlImage(index)
  \/ EncodeSettles

SpecBatch == Init /\ [][NextBatch]_vars

\* The names typed into the filename field of an image.
RenamedTo == {<<"f", "o", "o", "t", "e", "r", ".", "p", "n", "g">>, <<"x", ".", "g", "i", "f">>}

\* Html and auto-generate submissions whose prompt names no slot.
RenameValues ==
  { FormValues(type, <<"a", "@", "x", ".", "c", "o", "m">>, <<>>, <<>>, <<>>, <<"1">>) :
      type \in {"html", "auto-generate"} }

\* Uploads of the logo, renames, and assembly, one operation at a time.
NextRename ==
  \/ \E batch \in Batches({HeaderLogoPng}, 1) :
       Idle /\ handleHtmlImageChange(batch)
  \/ \E k \in 1..Len(calls) : encodeResolved(k)
  \/ \E index \in 0..(Len(htmlImages) - 1), newFilename \in RenamedTo :
       Idle /\ updateImageFilename(index, newFilename)
  \/ \E index \in 0..(Len(htmlImages) - 1) : Idle /\ removeHtmlImage(index)
  \/ \E type \in {"html", "auto-generate"} : Idle /\ setEmailType(type)
  \/ \E values \in RenameValues :
       Idle /\ formSchema(values) /\ onSubmit(values, 0)
  \/ Idle /\ closePayloadDialog

SpecRename == Init /\ [][NextRename]_vars

\* Html submissions to one recipient.
SendValues == {FormValues("html", <<"a", "@", "x", ".", "c", "o", "m">>, <<>>, <<>>, <<>>, <<"1">>)}

\* A session with an attachment and an image is assembled and sent, with
\* every outcome of the request.  The payload dialog is modal: the form under
\* it is out of reach while it is open, and here it stays open until the
\* request has settled.
NextSend ==
  \/ \E batch \in Batches({ReportPdf}, 1) :
       Idle /\ ~showPayloadDialog /\ handleFileChange(batch)
  \/ \E batch \in Batches({HeaderLogoPng}, 1) :
       Idle /\ ~showPayloadDialog /\ handleHtmlImageChange(batch)
  \/ \E k \in 1..Len(calls) : encodeResolved(k)
  \/ \E index \in 0..(Len(files) - 1) :
       Idle /\ ~showPayloadDialog /\ removeFile(index)
  \/ Idle /\ ~showPayloadDialog /\ Clear
  \/ ~isSending /\ closeAlert
  \/ \E values \in SendValues :
       Idle /\ ~showPayloadDialog /\ formSchema(values) /\ onSubmit(values, 0)
  \/ ~isSending /\ closePayloadDialog
  \/ Idle /\ SendEmailButton
  \/ \E outcome \in Outcomes : sendSettled(outcome)

SpecSend == Init /\ [][NextSend]_vars

\* The readings Date.now() can give, in milliseconds from the first one.
Readings == 0..MaxClock

\* Payloads are assembled one after the other, in any mode, each at a
\* reading of the clock that is not before the last one.
NextClock ==
  \/ \E batch \in Batches({HeaderLogoPng}, 1) :
       Idle /\ ~showPayloadDialog /\ handleHtmlImageChange(batch)
  \/ \E k \in 1..Len(calls) : encodeResolved(k)
  \/ \E type \in EmailTypes : ~showPayloadDialog /\ setEmailType(type)
  \/ \E values \in AssembleValues, now \in Readings :
       Idle /\ ~showPayloadDialog /\ formSchema(values) /\ onSubmit(values, now)
  \/ closePayloadDialog

SpecClock == Init /\ [][NextClock]_vars

\* Files of a few bytes, of every length up to MaxBytes, over two contents.
SmallFiles ==
  { File(<<"f", ".", "t", "x", "t">>, n, <<"text", "plain">>, Blob(period, n)) :
      n \in 0..MaxBytes, period \in {<<72, 105, 33>>, <<255, 0, 254>>} }

\* Small files are attached one at a time, read with or without success,
\* and removed.
NextEncode ==
  \/ \E batch \in Batches(SmallFiles, 1) : Idle /\ handleFileChange(batch)
  \/ EncodeSettles
  \/ \E index \in 0..(Len(files) - 1) : Idle /\ removeFile(index)

SpecEncode == Init /\ [][NextEncode]_vars

\* Two attachment files, one small and one that nearly fills the budget, with
\* nothing held back while a file is being read: a second selection, a
\* removal or Clear can come between the steps of a batch.
RaceFiles == {ReportPdf, ScanPdf}

NextRace ==
  \/ \E batch \in Batches(RaceFiles, MaxBatch) : handleFileChange(batch)
  \/ \E index \in 0..(Len(files) - 1) : removeFile(index)
  \/ Clear
  \/ EncodeSettles

SpecRace == Init /\ [][NextRace]_vars

\* The form is in reach when neither dialog covers it.
FormInReach == ~alertDialog.open /\ ~showPayloadDialog

\* A session is filled, assembled, sent and cleared with nothing waiting for
\* the encodes: the user goes on while a file is being read.  The notice and
\* the payload dialog are modal.
NextCleared ==
  \/ \E batch \in Batches({ReportPdf}, 1) :
       FormInReach /\ handleFileChange(batch)
  \/ \E batch \in Batches({HeaderLogoPng}, 1) :
       FormInReach /\ handleHtmlImageChange(batch)
  \/ EncodeSettles
  \/ FormInReach /\ Clear
  \/ closeAlert
  \/ \E values \in SendValues :
       FormInReach /\ formSchema(values) /\ onSubmit(values, 0)
  \/ ~alertDialog.open /\ closePayloadDialog
  \/ ~alertDialog.open /\ SendEmailButton
  \/ \E outcome \in Outcomes : sendSettled(outcome)

SpecCleared == Init /\ [][NextCleared]_vars

\* Attachments and images are uploaded and renamed, also while a file is
\* being read.  The rename handlers are called with every index from 0 up to
\* one past the last entry.
NextFrame ==
  \/ \E batch \in Batches({ReportPdf}, 1) : Idle /\ handleFileChange(batch)
  \/ \E batch \in Batches({HeaderLogoPng}, 1) :
       Idle /\ handleHtmlImageChange(batch)
  \/ EncodeSettles
  \/ \E index \in 0..Len(files), newFilename \in RenamedTo :
       updateAttachmentFilename(index, newFilename)
  \/ \E index \in 0..Len(htmlImages), newFilename \in RenamedTo :
       updateImageFilename(index, newFilename)

SpecFrame == Init /\ [][NextFrame]_vars

\* Form values with every short text as the To input, the rest valid.
ToValues ==
  { FormValues(type, to, <<>>, <<>>, <<>>, <<>>) :
      type \in EmailTypes, to \in Texts(AddressChars, MaxLen) }

\* Assembly with every To input that the schema lets through.
NextTo ==
  \/ \E values \in ToValues : formSchema(values) /\ onSubmit(values, 0)
  \/ \E type \in EmailTypes : setEmailType(type)
  \/ closePayloadDialog

SpecTo == Init /\ [][NextTo]_vars

\* Payloads are assembled at successive readings of the clock and sent, with
\* every outcome; the payload dialog can be closed while the request is in
\* flight.  handleSendEmail is also called with nothing assembled, the case
\* its first line is there for.
NextTransmit ==
  \/ \E values \in SendValues, now \in Readings :
       FormInReach /\ formSchema(values) /\ onSubmit(values, now)
  \/ ~alertDialog.open /\ closePayloadDialog
  \/ ~alertDialog.open /\ SendEmailButton
  \/ payloadObject = <<>> /\ handleSendEmail
  \/ \E outcome \in Outcomes : sendSettled(outcome)
  \/ closeAlert

SpecTransmit == Init /\ [][NextTransmit]_vars

\* The same with a remote call that settles: a POST in flight is answered or
\* fails in the end.  The code sets no timeout, so this is an assumption
\* about the server and the network.
SpecTransmitFair ==
  SpecTransmit /\ WF_vars(\E outcome \in Outcomes : sendSettled(outcome))

\* Batches of attachments and of images, a new one started also while an
\* earlier one is being read; every encode resolves.
NextOrder ==
  \/ \E batch \in Batches(RaceFiles, MaxBatch) : handleFileChange(batch)
  \/ \E batch \in Batches({HeaderLogoPng, FooterJpg}, MaxBatch) :
       handleHtmlImageChange(batch)
  \/ \E k \in 1..Len(calls) : encodeResolved(k)

SpecOrder == Init /\ [][NextOrder]_vars

-----------------------------------------------------------------------------
(* Properties of the attachment budget and of removal.                     *)

\* C1: used one operation at a time, the attachments of the session never
\* add up to more than MAX_TOTAL_SIZE, whatever was added and removed.
C1_TotalWithinCap == SumSizes(files) <= MAX_TOTAL_SIZE

\* The session is filled to the byte and a further file has been refused.
C1_Witness ==
  /\ SumSizes(files) = MAX_TOTAL_SIZE
  /\ alertDialog.title = "Total Size Limit Exceeded"
  /\ alertDialog.description.size = formatFileSize(0)

\* C2: the budget is the documented 15 MB: a file is admitted to the encode
\* only if the total plus its size stays within 15 MB, so the session never
\* holds more than 15 MB (10 MB then 6 MB leaves 10 MB).
C2_DocumentedBudget ==
  /\ \A k \in 1..Len(calls) :
       calls[k].handler = "handleFileChange"
         => calls[k].currentTotalSize + calls[k].file.size <= DocumentedLimit
  /\ SumSizes(files) <= DocumentedLimit

\* The entries of `after` are those of `before` without the one at JavaScript
\* index `index`, in the same order.
RemovedExactly(before, after, index) ==
  /\ Len(after) = Len(before) - 1
  /\ \A j \in 1..Len(after) :
       after[j] = IF j <= index THEN before[j] ELSE before[j + 1]
  /\ SumSizes(after) = SumSizes(before) - before[index + 1].size

\* C3: removeFile(i) takes out exactly the entry at i and lowers the total by
\* its recorded size; a resolved encode appends one entry and raises the total
\* by the file's size even when an identical entry is already there.
C3_RemoveExactAddIndependent ==
  [][/\ \A index \in 0..(Len(files) - 1) :
          removeFile(index) => RemovedExactly(files, files', index)
     /\ \A k \in 1..Len(calls) :
          (encodeResolved(k) /\ calls[k].handler = "handleFileChange")
            => /\ Len(files') = Len(files) + 1
               /\ SubSeq(files', 1, Len(files)) = files
               /\ files'[Len(files')].size = calls[k].file.size
               /\ SumSizes(files') = SumSizes(files) + calls[k].file.size]_vars

\* The same file is in the session twice and either copy can be removed.
C3_Witness ==
  /\ Len(files) = 2
  /\ files[1] = files[2]
  /\ ENABLED removeFile(0)

\* C10: a quota notice is only ever raised for a file of an accepted type: a
\* file of any other type is refused for its type, whatever its size.
C10_TypeDecidesFirst ==
  alertDialog.title = "Total Size Limit Exceeded"
    => \A f \in CandidateFiles :
         f.name = alertDialog.description.arg => acceptedType(f)

-----------------------------------------------------------------------------
(* Properties of the assembled payload.                                    *)

AssembledInfo == payloadObject[1].additionalInfo

AssembledInner == payloadObject[1].payload

\* C4: a payload assembled in text mode has neither the html_images nor the
\* attachment_files key, whatever the session holds at that moment.
C4_TextCarriesNoCollections ==
  [][\A values \in AssembleValues :
       (onSubmit(values, 0) /\ values.emailType = "text")
         => /\ ~HasKey(AssembledInfo', "html_images")
            /\ ~HasKey(AssembledInfo', "attachment_files")]_vars

\* A payload was assembled in text mode (only that mode sets the text key)
\* from a form whose session holds attachments and images.
C4_Witness ==
  /\ payloadObject # <<>>
  /\ HasKey(AssembledInner, "text")
  /\ emailType = "text"
  /\ showPayloadDialog
  /\ Len(files) > 0
  /\ Len(htmlImages) > 0

\* C5: a payload assembled in html or auto-generate mode has the html_images
\* key exactly when the session holds images and the attachment_files key
\* exactly when it holds attachments; a key that is there lists the entries
\* of its collection, all of them and in their order.
C5_CollectionsIffNonEmpty ==
  [][\A values \in AssembleValues :
       (onSubmit(values, 0) /\ values.emailType # "text")
         => /\ HasKey(AssembledInfo', "html_images") <=> Len(htmlImages) > 0
            /\ HasKey(AssembledInfo', "attachment_files") <=> Len(files) > 0
            /\ HasKey(AssembledInfo', "html_images")
                 => /\ Len(AssembledInfo'.html_images) = Len(htmlImages)
                    /\ \A i \in 1..Len(htmlImages) :
                         /\ AssembledInfo'.html_images[i].filename
                              = htmlImages[i].filename
                         /\ AssembledInfo'.html_images[i].base64
                              = htmlImages[i].base64
            /\ HasKey(AssembledInfo', "attachment_files")
                 => /\ Len(AssembledInfo'.attachment_files) = Len(files)
                    /\ \A i \in 1..Len(files) :
                         /\ AssembledInfo'.attachment_files[i].filename
                              = files[i].name
                         /\ AssembledInfo'.attachment_files[i].base64
                              = files[i].base64]_vars

\* A payload of a mode other than text lists two different images and has no
\* attachment_files key, the session holding two images and no attachment.
C5_Witness ==
  /\ payloadObject # <<>>
  /\ ~HasKey(AssembledInner, "text")
  /\ HasKey(AssembledInfo, "html_images")
  /\ Len(AssembledInfo.html_images) = 2
  /\ AssembledInfo.html_images[1] # AssembledInfo.html_images[2]
  /\ ~HasKey(AssembledInfo, "attachment_files")
  /\ Len(htmlImages) = 2
  /\ Len(files) = 0

\* Nothing but separators and blanks: the text has no entry.
NoEntry(input) ==
  \A i \in 1..Len(input) : input[i] \in {",", ";", " ", "\t", "\n"}

\* C6: the assembled payload lacks the cc key exactly when the cc input has
\* no entry, and likewise for bcc.
C6_RecipientKeyIffEntries ==
  [][\A values \in RecipientValues :
       onSubmit(values, 0)
         => /\ ~HasKey(AssembledInner', "cc") <=> NoEntry(values.cc)
            /\ ~HasKey(AssembledInner', "bcc") <=> NoEntry(values.bcc)]_vars

\* C7: additionalInfo.isText of an assembled payload is true exactly when the
\* mode is text.
C7_IsTextIffTextMode ==
  [][\A values \in AssembleValues :
       onSubmit(values, 0)
         => (AssembledInfo'.isText <=> values.emailType = "text")]_vars

\* A payload assembled in auto-generate mode is on display: it has no text
\* key and its isText is false.
C7_Witness ==
  /\ payloadObject # <<>>
  /\ ~HasKey(AssembledInner, "text")
  /\ ~AssembledInfo.isText
  /\ emailType = "auto-generate"
  /\ showPayloadDialog
  /\ Len(files) > 0

-----------------------------------------------------------------------------
(* Properties of parseEmails and of generateHtmlFromPrompt.                *)

\* The text without the characters of S.
RECURSIVE Without(_, _)
Without(s, S) ==
  IF s = <<>> THEN <<>>
  ELSE IF Head(s) \in S THEN Without(Tail(s), S)
  ELSE <<Head(s)>> \o Without(Tail(s), S)

\* The entries of a comma-joined list.
RECURSIVE CommaParts(_)
CommaParts(s) ==
  IF \A i \in 1..Len(s) : s[i] # "," THEN <<s>>
  ELSE LET i == CHOOSE j \in 1..Len(s) :
                  s[j] = "," /\ \A h \in 1..(j - 1) : s[h] # ","
       IN <<SubSeq(s, 1, i - 1)>> \o CommaParts(SubSeq(s, i + 1, Len(s)))

Blank(c) == c \in {" ", "\t", "\n"}

\* The pieces of the input between separators that hold more than blanks.
EntryStarts(input) ==
  {i \in 1..Len(input) :
     /\ input[i] \notin {",", ";"}
     /\ ~Blank(input[i])
     /\ \A h \in 1..(i - 1) :
          (\A m \in h..(i - 1) : input[m] \notin {",", ";"})
            => Blank(input[h])}

\* C8: parseEmails returns the entries of its input, split at commas and at
\* semicolons, each trimmed, none empty, in the order of the input, joined by
\* commas; the text of the scenario parses as the spec says.
C8_ParseEmails ==
  Returned("parseEmails") =>
    LET input == probe.arg
        output == probe.ret
        parts == IF output = <<>> THEN <<>> ELSE CommaParts(output)
    IN /\ \A i \in 1..Len(output) : output[i] # ";"
       /\ \A i \in 1..Len(parts) :
            /\ parts[i] # <<>>
            /\ ~Blank(parts[i][1])
            /\ ~Blank(parts[i][Len(parts[i])])
            /\ includes(input, parts[i])
       /\ Len(parts) = Cardinality(EntryStarts(input))
       /\ Without(output, {",", " ", "\t", "\n"})
            = Without(input, {",", ";", " ", "\t", "\n"})
       /\ input = ScenarioTo => output = ScenarioParsed

\* A text with both separators, a blank entry and blanks to trim was parsed.
C8_Witness ==
  /\ Returned("parseEmails")
  /\ probe.arg = ScenarioTo
  /\ probe.ret = ScenarioParsed

\* The <img> elements of a slot in a generated document.
SlotImages(html, slot) ==
  {i \in 1..Len(html) : html[i].el = "img" /\ html[i].class = slot}

NameHas(image, word) == includes(toLowerCase(image.filename), word)

\* What the claim says of one slot: its image is there exactly when a
\* registered filename has the word (in any case) or `promptHasWord`; it
\* refers to an image with the word in its name if there is one and to the
\* default if not.
SlotAsClaimed(html, images, slot, word, fallback, promptHasWord) ==
  LET matching == {i \in 1..Len(images) : NameHas(images[i], word)} IN
    /\ SlotImages(html, slot) # {} <=> (matching # {} \/ promptHasWord)
    /\ \A e \in SlotImages(html, slot) :
         IF matching # {}
           THEN \E i \in matching :
                  html[e].src = CidPrefix \o images[i].filename
         ELSE html[e].src = CidPrefix \o fallback

ScenarioHolds(html, images, prompt) ==
  (prompt = ScenarioPrompt /\ Len(images) = 1
     /\ images[1].filename = <<"h", "e", "a", "d", "e", "r", "-", "l", "o", "g", "o", ".", "p", "n", "g">>)
    => /\ \E e \in SlotImages(html, "header") :
            html[e].src = <<"c", "i", "d", ":", "i", "m", "g", "@", "h", "e", "a", "d", "e", "r", "-", "l", "o", "g", "o", ".", "p", "n", "g">>
       /\ \E e \in SlotImages(html, "footer") :
            html[e].src = <<"c", "i", "d", ":", "i", "m", "g", "@", "f", "o", "o", "t", "e", "r", ".", "p", "n", "g">>

\* C9 as stated: the prompt counts when it contains the word as written.
C9_SlotsPromptAsWritten ==
  Returned("generateHtmlFromPrompt") =>
    /\ SlotAsClaimed(probe.ret, probe.images, "header", <<"h", "e", "a", "d", "e", "r">>,
                     <<"h", "e", "a", "d", "e", "r", ".", "p", "n", "g">>, includes(probe.arg, <<"h", "e", "a", "d", "e", "r">>))
    /\ SlotAsClaimed(probe.ret, probe.images, "footer", <<"f", "o", "o", "t", "e", "r">>,
                     <<"f", "o", "o", "t", "e", "r", ".", "p", "n", "g">>, includes(probe.arg, <<"f", "o", "o", "t", "e", "r">>))
    /\ ScenarioHolds(probe.ret, probe.images, probe.arg)

\* C9 amended: the prompt counts when it contains the word in any letter
\* case, as the filenames do; the rest as stated.
C9_SlotsPromptAnyCase ==
  Returned("generateHtmlFromPrompt") =>
    /\ SlotAsClaimed(probe.ret, probe.images, "header", <<"h", "e", "a", "d", "e", "r">>,
                     <<"h", "e", "a", "d", "e", "r", ".", "p", "n", "g">>,
                     includes(toLowerCase(probe.arg), <<"h", "e", "a", "d", "e", "r">>))
    /\ SlotAsClaimed(probe.ret, probe.images, "footer", <<"f", "o", "o", "t", "e", "r">>,
                     <<"f", "o", "o", "t", "e", "r", ".", "p", "n", "g">>,
                     includes(toLowerCase(probe.arg), <<"f", "o", "o", "t", "e", "r">>))
    /\ ScenarioHolds(probe.ret, probe.images, probe.arg)

\* The scenario: one image header-logo.png and a prompt naming both slots.
C9_Witness ==
  /\ Returned("generateHtmlFromPrompt")
  /\ probe.arg = ScenarioPrompt
  /\ Len(probe.images) = 1
  /\ probe.images[1].filename = <<"h", "e", "a", "d", "e", "r", "-", "l", "o", "g", "o", ".", "p", "n", "g">>
  /\ Len(probe.ret) = 5

-----------------------------------------------------------------------------
(* Properties of batches.                                                  *)

\* Whether a file gets past the checks of its handler, the attachments
\* adding up to `total`.
Passes(handler, file, total) ==
  IF handler = "handleFileChange"
    THEN file.type \in ACCEPTED_FILE_TYPES /\ total + file.size <= MAX_TOTAL_SIZE
  ELSE file.type[1] = "image"

\* The handler goes through `queue`: the file it is left reading is the
\* first one of the queue that passes, whatever was refused before it, and
\* the files after that one are still to come; it ends only when none passes.
GoesOn(handler, queue, total, after) ==
  LET passing == {i \in 1..Len(queue) : Passes(handler, queue[i], total)} IN
    IF passing = {} THEN after = <<>>
    ELSE LET first == CHOOSE i \in passing : \A j \in passing : i <= j IN
      /\ Len(after) = 1
      /\ after[1].handler = handler
      /\ after[1].file = queue[first]
      /\ after[1].rest = SubSeq(queue, first + 1, Len(queue))

\* C11: a refused file never stops its batch.  When a batch starts, and when
\* the encode of one of its files fails or succeeds, the handler goes on to
\* the next file that passes its checks; a file whose encode succeeds is
\* appended to its collection.
C11_BatchGoesOn ==
  [][/\ \A batch \in Batches(BatchFiles, MaxBatch) :
          handleFileChange(batch)
            => GoesOn("handleFileChange", batch, SumSizes(files), calls')
     /\ \A batch \in Batches(BatchImages, MaxBatch) :
          handleHtmlImageChange(batch)
            => GoesOn("handleHtmlImageChange", batch, SumSizes(files), calls')
     /\ \A k \in 1..Len(calls) :
          encodeFailed(k)
            => GoesOn(calls[k].handler, calls[k].rest, SumSizes(files), calls')
     /\ \A k \in 1..Len(calls) :
          encodeResolved(k)
            => /\ GoesOn(calls[k].handler, calls[k].rest, SumSizes(files'),
                         calls')
               /\ IF calls[k].handler = "handleFileChange"
                    THEN /\ Len(files') = Len(files) + 1
                         /\ files'[Len(files')].name = calls[k].file.name
                    ELSE /\ Len(htmlImages') = Len(htmlImages) + 1
                         /\ htmlImages'[Len(htmlImages')].filename
                              = calls[k].file.name]_vars

\* The text file is being read as the rest of a batch whose earlier file was
\* refused for its type, and an image of an earlier batch is in the session.
C11_Witness ==
  /\ Len(calls) = 1
  /\ calls[1].handler = "handleFileChange"
  /\ calls[1].file = NotesTxt
  /\ alertDialog = TypeNotice(ToolExe)
  /\ Len(htmlImages) > 0

\* C12: a file whose encode fails is not appended and costs nothing: the
\* collection is as it was, and the rest of the batch is admitted against
\* the sum of the attachments held, which leaves the failed file out.
C12_FailedEncodeIsFree ==
  [][\A k \in 1..Len(calls) :
       (encodeFailed(k) /\ calls[k].handler = "handleFileChange")
         => /\ files' = files
            /\ GoesOn("handleFileChange", calls[k].rest, SumSizes(files), calls')
            /\ \A j \in 1..Len(calls') :
                 calls'[j].currentTotalSize = SumSizes(files)]_vars

\* The encode of a 140 MB file has failed and a second 140 MB file of the
\* same batch is being read against a total of nothing.
C12_Witness ==
  /\ alertDialog = EncodeNotice(ScanPdf)
  /\ files = <<>>
  /\ Len(calls) = 1
  /\ calls[1].file = ScanPdf
  /\ calls[1].currentTotalSize = 0

\* The files of `queue` that handleFileChange refuses before it first awaits
\* an encode, the attachments adding up to `total`: those ahead of the first
\* file that passes.
RefusedAtOnce(queue, total) ==
  {i \in 1..Len(queue) :
     \A j \in 1..i : ~Passes("handleFileChange", queue[j], total)}

\* The notice handleFileChange raises for a file it refuses.
RefusalNotice(file, total) ==
  IF total + file.size > MAX_TOTAL_SIZE THEN QuotaNotice(file, total)
  ELSE TypeNotice(file)

\* C13: every refusal is put before the user as a notice of its own: once
\* the handler has run, the notice of each file it refused is on display.
C13_EveryRefusalPresented ==
  [][\A batch \in Batches(CandidateFiles, MaxBatch) :
       handleFileChange(batch)
         => \A i \in RefusedAtOnce(batch, SumSizes(files)) :
              alertDialog' = RefusalNotice(batch[i], SumSizes(files))]_vars

-----------------------------------------------------------------------------
(* Properties of the inline images.                                        *)

\* A step of the inline-image side: a selection of images, the encode of an
\* image settling, or the removal of an image.
ImageStep ==
  \/ \E batch \in Batches(BatchImages, MaxBatch) : handleHtmlImageChange(batch)
  \/ \E k \in 1..Len(calls) :
       /\ calls[k].handler = "handleHtmlImageChange"
       /\ encodeResolved(k) \/ encodeFailed(k)
  \/ \E index \in 0..(Len(htmlImages) - 1) : removeHtmlImage(index)

\* C14: an image is taken exactly when its type starts with "image/",
\* whatever its size and the attachment total; no step of the image side
\* changes the attachment total or raises a quota notice, and a later
\* attachment is admitted against the attachments alone.
C14_ImagesOutsideBudget ==
  [][/\ \A batch \in Batches(BatchImages, MaxBatch) :
          handleHtmlImageChange(batch)
            => LET images == {i \in 1..Len(batch) : batch[i].type[1] = "image"}
               IN IF images = {} THEN calls' = <<>>
                  ELSE /\ Len(calls') = 1
                       /\ \E i \in images :
                            /\ calls'[1].file = batch[i]
                            /\ \A j \in images : i <= j
     /\ \A k \in 1..Len(calls) :
          (encodeResolved(k) /\ calls[k].handler = "handleHtmlImageChange")
            => /\ calls[k].file.type[1] = "image"
               /\ htmlImages'
                    = Append(htmlImages,
                             HtmlImage(calls[k].file, convertToBase64(calls[k].file)))
     /\ ImageStep
          => /\ files' = files
             /\ alertDialog' # alertDialog
                  => alertDialog'.title # "Total Size Limit Exceeded"
     /\ \A batch \in Batches(BatchFiles, MaxBatch) :
          handleFileChange(batch)
            => /\ GoesOn("handleFileChange", batch, SumSizes(files), calls')
               /\ \A j \in 1..Len(calls') :
                    calls'[j].currentTotalSize = SumSizes(files)]_vars

\* A 200 MB drawing is among the two images of the session while an
\* attachment is held, every batch done.
C14_Witness ==
  /\ \E i \in 1..Len(htmlImages) : htmlImages[i].filename = BannerSvg.name
  /\ Len(files) = 1
  /\ Len(htmlImages) = 2
  /\ calls = <<>>

\* The references of a generated document that point at a registered image.
References(html) == {html[i].src : i \in SlotImages(html, "header")
                                        \cup SlotImages(html, "footer")}

\* C15: a payload assembled after a rename carries the current filename of
\* every image: html_images lists the current filenames, the synthesized
\* document picks and refers to images by their current filenames, and a
\* filename an image no longer has is referred to nowhere.
C15_CurrentFilenameUsed ==
  [][\A values \in RenameValues :
       (onSubmit(values, 0) /\ htmlImages # <<>>)
         => /\ Len(AssembledInfo'.html_images) = Len(htmlImages)
            /\ \A i \in 1..Len(htmlImages) :
                 AssembledInfo'.html_images[i].filename = htmlImages[i].filename
            /\ values.emailType = "auto-generate"
                 => /\ SlotAsClaimed(AssembledInner'.html, htmlImages, "header",
                                     <<"h", "e", "a", "d", "e", "r">>, <<"h", "e", "a", "d", "e", "r", ".", "p", "n", "g">>, FALSE)
                    /\ SlotAsClaimed(AssembledInner'.html, htmlImages, "footer",
                                     <<"f", "o", "o", "t", "e", "r">>, <<"f", "o", "o", "t", "e", "r", ".", "p", "n", "g">>, FALSE)
                    /\ \A i \in 1..Len(htmlImages) :
                         (\A j \in 1..Len(htmlImages) :
                            htmlImages[j].filename # htmlImages[i].originalName)
                           => CidPrefix \o htmlImages[i].originalName
                                \notin References(AssembledInner'.html)]_vars

\* The logo was uploaded as header-logo.png and renamed to footer.png: the
\* payload on display lists it as footer.png, refers to it from the footer
\* slot and has no header slot.
C15_Witness ==
  /\ payloadObject # <<>>
  /\ showPayloadDialog
  /\ emailType = "auto-generate"
  /\ Len(htmlImages) = 1
  /\ htmlImages[1].originalName = HeaderLogoPng.name
  /\ htmlImages[1].filename = <<"f", "o", "o", "t", "e", "r", ".", "p", "n", "g">>
  /\ HasKey(AssembledInfo, "html_images")
  /\ AssembledInfo.html_images[1].filename = <<"f", "o", "o", "t", "e", "r", ".", "p", "n", "g">>
  /\ References(AssembledInner.html) = {CidPrefix \o <<"f", "o", "o", "t", "e", "r", ".", "p", "n", "g">>}

-----------------------------------------------------------------------------
(* Properties of the delivery.                                             *)

\* A request settles in this step and the notice of the given title goes up.
Settles(title) ==
  /\ request # <<>>
  /\ request' = <<>>
  /\ alertDialog'.title = title

HasServerMessage(outcome) ==
  outcome.serverMessage # <<>> /\ outcome.serverMessage[1] # ""

\* C17: when the request fails, the error shown to the user carries the
\* message of the server if the response has one and the message of the
\* transport if not; when it succeeds, the caller gets the body of the
\* response as it came and shows the message in it.
C17_ErrorPrefersServerMessage ==
  [][\A outcome \in Outcomes :
       sendSettled(outcome)
         => IF outcome.ok
              THEN /\ ~sendEmail(outcome).threw
                   /\ sendEmail(outcome).data = outcome.body
                   /\ alertDialog'.title = "Email Sent Successfully"
                   /\ alertDialog'.description.message
                        = IF outcome.body.message = <<>> THEN ""
                          ELSE outcome.body.message[1]
            ELSE /\ sendEmail(outcome).threw
                 /\ sendEmail(outcome).message
                      = IF HasServerMessage(outcome)
                          THEN outcome.serverMessage[1]
                        ELSE outcome.transportMessage
                 /\ alertDialog'.title = "Failed to Send Email"
                 /\ alertDialog'.description.message
                      = sendEmail(outcome).message]_vars

\* A send has failed with a message of the server and the notice shows it;
\* the payload is still on display for another try.
C17_Witness ==
  /\ alertDialog.title = "Failed to Send Email"
  /\ alertDialog.description.message = "Mailbox unavailable"
  /\ showPayloadDialog
  /\ ~isSending
  /\ request = <<>>

-----------------------------------------------------------------------------
(* Properties of the assembly as a whole.                                  *)

\* C18: every assembly gives a txnRefNo of its own: the payload assembled in
\* a step never has the txnRefNo of the payload assembled before it.
C18_TxnRefNoFresh ==
  [][\A values \in AssembleValues, now \in Readings :
       (onSubmit(values, now) /\ payloadObject # <<>>)
         => payloadObject'[1].txnRefNo # payloadObject[1].txnRefNo]_vars

\* C19: assembling a payload leaves the session alone: in every mode the
\* attachments and the images are after onSubmit what they were before it,
\* entry for entry.
C19_AssemblyKeepsSession ==
  [][\A values \in AssembleValues :
       onSubmit(values, 0)
         => /\ Len(files') = Len(files)
            /\ \A i \in 1..Len(files) : files'[i] = files[i]
            /\ Len(htmlImages') = Len(htmlImages)
            /\ \A i \in 1..Len(htmlImages) : htmlImages'[i] = htmlImages[i]]_vars

\* A text payload that transmits neither collection is on display, and the
\* attachment and the two images gathered before it are still in the session.
C19_Witness ==
  /\ payloadObject # <<>>
  /\ showPayloadDialog
  /\ AssembledInfo.isText
  /\ ~HasKey(AssembledInfo, "attachment_files")
  /\ ~HasKey(AssembledInfo, "html_images")
  /\ Len(files) = 1
  /\ Len(htmlImages) = 2

-----------------------------------------------------------------------------
(* Properties of the encoding.                                             *)

\* The value of a base64 character; the padding counts for nothing.
Base64Value(char) ==
  IF char = "=" THEN 0
  ELSE (CHOOSE v \in 1..64 : Base64Alphabet[v] = char) - 1

\* The bytes that four characters of base64 stand for: three, less one for
\* each "=" at the end.
decodeGroup(chars) ==
  IF chars = <<>> THEN <<>>
  ELSE LET v == [i \in 1..4 |-> Base64Value(chars[i])]
           padding == Cardinality({i \in 1..4 : chars[i] = "="})
       IN SubSeq(<< v[1] * 4 + (v[2] \div 16),
                    (v[2] % 16) * 16 + (v[3] \div 4),
                    (v[3] % 4) * 64 + v[4] >>, 1, 3 - padding)

\* The number of bytes that decoding a base64 text gives.
DecodedLength(text) ==
  text.groups * Len(decodeGroup(text.group)) + Len(decodeGroup(text.tail))

\* C20: for every attachment of the session, decoding the base64 text of the
\* data URL stored with it gives as many bytes as its recorded size.
C20_DecodedLengthIsSize ==
  \A i \in 1..Len(files) : DecodedLength(files[i].base64.data) = files[i].size

\* The session holds a file of four bytes, stored as one whole group and a
\* group padded with "==", next to an empty file.
C20_Witness ==
  /\ Len(files) = 2
  /\ files[1].size = 4
  /\ files[1].base64.data.groups = 1
  /\ files[1].base64.data.group = <<"S", "G", "k", "h">>
  /\ files[1].base64.data.tail = <<"S", "A", "=", "=">>
  /\ files[2].size = 0

(* Properties of batches that overlap in time. *)

\* The calls of `after` that are not in `before` are at most one, and that
\* one reads a file of `queue` with the files behind it still to come: the
\* files of `queue` before it are done with.
OneInFlight(queue, before, after) ==
  /\ Len(after) <= Len(before) + 1
  /\ SubSeq(after, 1, Len(before)) = before
  /\ Len(after) = Len(before) + 1 =>
       \E i \in 1..Len(queue) :
         /\ after[Len(after)].file = queue[i]
         /\ after[Len(after)].rest = SubSeq(queue, i + 1, Len(queue))

Settled(k) == encodeResolved(k) \/ encodeFailed(k)

\* C21: one batch has at most one encode in flight.  Starting a batch begins
\* the encode of at most one of its files, and a further file of the batch
\* is handed to the encoder only in the step in which the encode before it
\* resolved or failed, the files between the two having been refused; the
\* encodes of other batches are left as they are.
C21_OneEncodePerBatch ==
  [][/\ \A batch \in Batches(RaceFiles, MaxBatch) :
          handleFileChange(batch) => OneInFlight(batch, calls, calls')
     /\ \A k \in 1..Len(calls) :
          Settled(k) => OneInFlight(calls[k].rest, RemoveAt(calls, k), calls')]_vars

\* The large file is being read as the second file of a batch, the encode of
\* the first file having resolved: that file is in the session and counted.
C21_Witness ==
  /\ Len(calls) = 1
  /\ Len(files) = 1
  /\ files[1].name = ReportPdf.name
  /\ calls[1].file = ScanPdf
  /\ calls[1].currentTotalSize = ReportPdf.size

\* C22: batches that overlap keep the budget.  Once every batch has run to
\* its end the attachments of the session sum to at most MAX_TOTAL_SIZE,
\* also when one batch was started while another was suspended in an encode.
C22_OverlappingBatchesWithinCap ==
  calls = <<>> => SumSizes(files) <= MAX_TOTAL_SIZE

\* C23: a cleared session stays empty.  The form is covered by the notice of
\* a successful send until the user closes it, so while that notice is up no
\* add has been started since the send cleared the collections: they are
\* still empty, whatever encode was in flight at the time.
C23_ClearedStaysEmpty ==
  (alertDialog.open /\ alertDialog.title = SentNotice(NoBody).title)
    => (files = <<>> /\ htmlImages = <<>>)

\* The notice a step raises is the quota notice of one of `queue`'s files.
QuotaRefusal(queue) ==
  /\ alertDialog' # alertDialog
  /\ alertDialog'.title = QuotaNotice(ScanPdf, 0).title
  /\ \E i \in 1..Len(queue) :
       alertDialog'.description.arg = QuotaNotice(queue[i], 0).description.arg

\* The notice raised is right about the session: with the attachments held
\* after the step, some file of `queue` named by the notice is over the
\* budget, and the headroom shown is what those attachments leave.
RefusalIsActual(queue) ==
  \E i \in 1..Len(queue) :
    /\ alertDialog' = QuotaNotice(queue[i], SumSizes(files'))
    /\ SumSizes(files') + queue[i].size > MAX_TOTAL_SIZE

\* C24: a file is refused for the budget only when the attachments actually
\* held, with the file, are over MAX_TOTAL_SIZE, and the headroom the notice
\* shows is MAX_TOTAL_SIZE less the sum of the attachments actually held;
\* this also after a removal or Clear made while the batch was suspended.
C24_RefusedAgainstActualSum ==
  [][/\ \A batch \in Batches(RaceFiles, MaxBatch) :
          (handleFileChange(batch) /\ QuotaRefusal(batch))
            => RefusalIsActual(batch)
     /\ \A k \in 1..Len(calls) :
          (Settled(k) /\ QuotaRefusal(calls[k].rest))
            => RefusalIsActual(calls[k].rest)]_vars

(* Properties of renaming. *)

\* `after` is `before` but for the field `field` of the entry at `index`
\* (counted from 0), which is `value`; no entry when the index is outside.
OnlyFieldChanged(before, after, index, field, value) ==
  /\ Len(after) = Len(before)
  /\ \A i \in 1..Len(before) :
       IF i - 1 = index
         THEN /\ after[i][field] = value
              /\ \A other \in DOMAIN before[i] \ {field} :
                   after[i][other] = before[i][other]
         ELSE after[i] = before[i]
  /\ index \notin 0..(Len(before) - 1) => after = before

\* C25: a rename changes the name of one entry and nothing else.  The size,
\* data and originalName of the entry, every other entry, the other
\* collection, the sum of the attachment sizes and the totals of the batches
\* being read stay as they are; an index outside the collection changes
\* nothing.
C25_RenameChangesOnlyTheName ==
  [][/\ \A index \in 0..Len(files), newFilename \in RenamedTo :
          updateAttachmentFilename(index, newFilename)
            => /\ OnlyFieldChanged(files, files', index, "name", newFilename)
               /\ htmlImages' = htmlImages
               /\ SumSizes(files') = SumSizes(files)
               /\ calls' = calls
     /\ \A index \in 0..Len(htmlImages), newFilename \in RenamedTo :
          updateImageFilename(index, newFilename)
            => /\ OnlyFieldChanged(htmlImages, htmlImages', index, "filename",
                                   newFilename)
               /\ files' = files
               /\ calls' = calls]_vars

\* Two attachments and two images are held; the second attachment and the
\* first image have been renamed and keep their original names, the others
\* are as uploaded.
C25_Witness ==
  /\ Len(files) = 2 /\ Len(htmlImages) = 2
  /\ files[1].name = ReportPdf.name
  /\ files[2].name # ReportPdf.name /\ files[2].originalName = ReportPdf.name
  /\ files[2].size = ReportPdf.size
  /\ htmlImages[1].filename # HeaderLogoPng.name
  /\ htmlImages[1].originalName = HeaderLogoPng.name
  /\ htmlImages[2].filename = HeaderLogoPng.name

(* Properties of the synthesized document's image references. *)

\* With an image of the registry matching the word, the slot has one <img>,
\* and it refers to the first of the matching images in registry order.
FirstMatchReferenced(html, images, slot, word) ==
  LET matching == {i \in 1..Len(images) : NameHas(images[i], word)} IN
    matching # {} =>
      LET first == CHOOSE i \in matching : \A j \in matching : i <= j IN
        /\ Cardinality(SlotImages(html, slot)) = 1
        /\ \A e \in SlotImages(html, slot) :
             html[e].src = CidPrefix \o images[first].filename

\* C26: of several registered images whose filenames contain "header"
\* (resp. "footer") the first in registry order is the one the slot refers
\* to, and the slot has no second reference.
C26_FirstMatchWins ==
  Returned("generateHtmlFromPrompt") =>
    /\ FirstMatchReferenced(probe.ret, probe.images, "header", <<"h", "e", "a", "d", "e", "r">>)
    /\ FirstMatchReferenced(probe.ret, probe.images, "footer", <<"f", "o", "o", "t", "e", "r">>)

\* Both images of the registry have "header" in their names and the second
\* also has "footer": the header slot refers to the first, the footer slot
\* to the second.
C26_Witness ==
  /\ Returned("generateHtmlFromPrompt")
  /\ Len(probe.images) = 2
  /\ probe.images[1].filename = <<"H", "e", "a", "d", "e", "r", "2", ".", "g", "i", "f">>
  /\ probe.images[2].filename = <<"f", "o", "o", "t", "e", "r", "-", "h", "e", "a", "d", "e", "r", ".", "p", "n", "g">>
  /\ \E e \in SlotImages(probe.ret, "header") :
       probe.ret[e].src = <<"c", "i", "d", ":", "i", "m", "g", "@", "H", "e", "a", "d", "e", "r", "2", ".", "g", "i", "f">>
  /\ \E e \in SlotImages(probe.ret, "footer") :
       probe.ret[e].src = <<"c", "i", "d", ":", "i", "m", "g", "@", "f", "o", "o", "t", "e", "r", "-", "h", "e", "a", "d", "e", "r", ".", "p", "n", "g">>

(* Properties of the recipients of a validated form. *)

\* The text is a comma-joined list of one or more entries, none empty: it
\* neither starts nor ends with a comma and has no two commas in a row.
NamesRecipients(text) ==
  /\ text # <<>>
  /\ text[1] # "," /\ text[Len(text)] # ","
  /\ \A i \in 1..(Len(text) - 1) : ~(text[i] = "," /\ text[i + 1] = ",")

\* C27: every payload assembled from a form that passed validation names a
\* recipient: payload.to is not empty and each of its comma-separated
\* entries is not empty.
C27_ValidatedFormNamesRecipient ==
  [][\A values \in ToValues :
       (formSchema(values) /\ onSubmit(values, 0))
         => NamesRecipients(AssembledInner'.to)]_vars

(* Properties of the transmission. *)

\* C28: a request is issued only with an assembled payload, and its body is
\* the payload of the most recent assembly: the payload held changes only
\* when the form is submitted, to what that submission assembles, and a
\* request issued carries the payload held.  handleSendEmail called with no
\* payload held issues nothing and changes nothing.
C28_SendsLatestAssembly ==
  [][/\ payloadObject' # payloadObject
          => \E values \in SendValues, now \in Readings :
               /\ onSubmit(values, now)
               /\ payloadObject' = <<assemble(values, htmlImages, files, now)>>
     /\ Len(request') > Len(request)
          => /\ payloadObject # <<>>
             /\ request' = Append(request, payloadObject[1])
     /\ (payloadObject = <<>> /\ handleSendEmail) => UNCHANGED vars]_vars

\* The payload assembled at the second reading of the clock is in flight,
\* and it is the payload held.
C28_Witness ==
  /\ isSending
  /\ Len(request) = 1
  /\ payloadObject = <<request[1]>>
  /\ request[1].txnRefNo = generateTxnRefNo(1)

\* C29: isSending is true exactly while a request is in flight, at most one
\* request is in flight at a time, and, the remote call settling, a raised
\* flag is lowered again, after a success and after a failure alike, so
\* that the Send Email button is enabled again.
C29_SendingFlag ==
  /\ [](isSending <=> request # <<>>)
  /\ [](Len(request) <= 1)
  /\ [][\A outcome \in Outcomes : sendSettled(outcome) => ~isSending']_vars
  /\ (isSending ~> ~isSending)

\* A request has failed: the failure notice is up over the payload dialog,
\* nothing is in flight and the flag is down.
C29_Witness ==
  /\ alertDialog.open /\ alertDialog.title = FailedNotice(<<>>).title
  /\ showPayloadDialog
  /\ request = <<>>
  /\ ~isSending

(* Properties of the order of the collections. *)

\* `after` is `before` with one entry behind it, made from the file.
AppendedBehind(before, after, file) ==
  /\ Len(after) = Len(before) + 1
  /\ SubSeq(after, 1, Len(before)) = before
  /\ after[Len(after)].originalName = file.name
  /\ after[Len(after)].base64 = convertToBase64(file)

\* C30: an add appends and keeps the order.  Starting a batch moves no
\* entry; a file whose encode resolves goes behind every entry held at that
\* time, the other collection untouched; and the batch goes on with a later
\* file of its queue, so the entries of one batch stand in the order the
\* files had in the batch.
C30_AppendedInBatchOrder ==
  [][/\ \A batch \in Batches(RaceFiles, MaxBatch) :
          handleFileChange(batch)
            => /\ files' = files /\ htmlImages' = htmlImages
               /\ OneInFlight(batch, calls, calls')
     /\ \A batch \in Batches({HeaderLogoPng, FooterJpg}, MaxBatch) :
          handleHtmlImageChange(batch)
            => /\ files' = files /\ htmlImages' = htmlImages
               /\ OneInFlight(batch, calls, calls')
     /\ \A k \in 1..Len(calls) :
          encodeResolved(k)
            => /\ IF calls[k].handler = "handleFileChange"
                    THEN /\ AppendedBehind(files, files', calls[k].file)
                         /\ htmlImages' = htmlImages
                    ELSE /\ AppendedBehind(htmlImages, htmlImages',
                                           calls[k].file)
                         /\ files' = files
               /\ OneInFlight(calls[k].rest, RemoveAt(calls, k), calls')]_vars

\* The batch scan.pdf, report.pdf and the batch My-FOOTER.jpg,
\* header-logo.png have been read: each collection holds its two entries in
\* that order.
C30_Witness ==
  /\ calls = <<>>
  /\ Len(files) = 2 /\ Len(htmlImages) = 2
  /\ files[1].name = ScanPdf.name /\ files[2].name = ReportPdf.name
  /\ htmlImages[1].filename = FooterJpg.name
  /\ htmlImages[2].filename = HeaderLogoPng.name

====
